---- MODULE Spec2Model ----
(***************************************************************************)
(* A model of kyoko's config.py: the three files it manages (Caddyfile,    *)
(* users.json, xray/config.json), the UsersConfig and XrayConfig accessor  *)
(* objects, and the client / connstr / generate commands.                  *)
(*                                                                         *)
(* A file is modelled by its parsed content: users.json by the mapping it  *)
(* holds, xray/config.json by the client list and the stream settings, the *)
(* Caddyfile by the domain its first line names.  json.dumps(sort_keys)    *)
(* sorts object keys only, so the client list keeps its order on disk.     *)
(***************************************************************************)
EXTENDS Integers, Sequences, FiniteSets, TLC

(* ---------------------------------------------------------------- bounds *)

\* The client list is capped at MaxClients entries (guard of add).
MaxClients == 3

\* Under SpecConc, at most MaxCommands commands begin per generated config.
MaxCommands == 3

\* The values uuid4() may return.  The pool is small, so a collision with a
\* UUID already issued is possible, as the code does not exclude it.
UUIDs == {"u1", "u2", "u3"}

\* The usernames typed at the prompt of `client add`.
Names == {"ann", "bob"}

\* --domain values and the paths secrets.token_urlsafe() may produce.
Domains == {"localhost"}
Paths == {"/tok"}
Transports == {"ws", "xhttp"}

\* The characters typed at a sequence-number prompt, and the lines typed:
\* every line of at most two characters.
Chars == {"0", "1", "2", "3", "-", "x"}
Digits == {"0", "1", "2", "3"}
Inputs == {<<>>} \cup {<<a>> : a \in Chars} \cup {<<a, b>> : a, b \in Chars}

\* The processes that may run the program.
Procs == {"p1", "p2"}

None == "None"

(* ----------------------------------------------------------- file values *)

EmptyMap == [u \in {} |-> ""]

NoStream == [network |-> None, wsPath |-> None, xhttpPath |-> None]

\* An absent file, per kind.
NoCaddy == [exists |-> FALSE, domain |-> None]
NoUsers == [exists |-> FALSE, map |-> EmptyMap]
NoXray == [exists |-> FALSE, clients |-> <<>>, stream |-> NoStream]

Range(s) == {s[i] : i \in 1..Len(s)}

(* -------------------------------------------------------- int(number) *)

DigitVal(c) ==
    CASE c = "0" -> 0 [] c = "1" -> 1 [] c = "2" -> 2 [] c = "3" -> 3
      [] OTHER -> 0

RECURSIVE DigitsVal(_)
DigitsVal(s) ==
    IF s = <<>> THEN 0
    ELSE 10 * DigitsVal(SubSeq(s, 1, Len(s) - 1)) + DigitVal(s[Len(s)])

\* Python's int(str): an optional sign, then one or more decimal digits;
\* anything else raises ValueError.
ParseInt(s) ==
    LET signed == Len(s) > 0 /\ s[1] \in {"-", "+"}
        body == IF signed THEN Tail(s) ELSE s
        ok == Len(body) > 0 /\ \A i \in 1..Len(body) : body[i] \in Digits
        mag == IF ok THEN DigitsVal(body) ELSE 0
    IN [ok |-> ok,
        val |-> IF signed /\ s[1] = "-" THEN 0 - mag ELSE mag]

\* Mutant: the prompt's validation without the number < 1 test.
ValidNumber_NoLowerBound(s) == ParseInt(s).ok

\* The prompt's validation: int(number), then number < 1 raises ValueError.
ValidNumber(s) == ParseInt(s).ok /\ ParseInt(s).val >= 1

(* ------------------------------------------------------ list indexing *)

\* seq[i] for a Python list of length n and a zero-based index i, which may
\* be negative (counted from the end): the one-based position selected, or
\* 0 when Python raises IndexError.
PyIndex(n, i) ==
    IF i >= 0
    THEN IF i < n THEN i + 1 ELSE 0
    ELSE IF 0 - i <= n THEN n + i + 1 ELSE 0

\* Mutant: pop() instead of del s[k].
DeleteAt_Last(s, k) == SubSeq(s, 1, Len(s) - 1)

DeleteAt(s, k) == [j \in 1..(Len(s) - 1) |-> IF j < k THEN s[j] ELSE s[j + 1]]

(* --------------------------------------------------------- UsersConfig *)

\* Mutant: the mapping is replaced by the new entry alone.
UsersSet_Only(m, u, name) == [x \in {u} |-> name]

\* __setitem__: insert or overwrite (the caller then saves).
UsersSet(m, u, name) == [x \in (DOMAIN m) \cup {u} |-> IF x = u THEN name ELSE m[x]]

\* Mutant: the entry is not deleted.
UsersDel_Noop(m, u) == [err |-> FALSE, map |-> m]

\* __delitem__: the mapping without u; KeyError when u is absent.
UsersDel(m, u) ==
    IF u \in DOMAIN m
    THEN [err |-> FALSE, map |-> [x \in (DOMAIN m) \ {u} |-> m[x]]]
    ELSE [err |-> TRUE, map |-> m]

(* ---------------------------------------------------------- XrayConfig *)

XrayAdd(doc, u) == [doc EXCEPT !.clients = Append(@, u)]

XrayCount(doc) == Len(doc.clients)

XrayGet(doc, number) ==
    LET k == PyIndex(Len(doc.clients), number - 1)
    IN IF k = 0 THEN [err |-> TRUE, ret |-> None]
       ELSE [err |-> FALSE, ret |-> doc.clients[k]]

\* Mutant: the sequence number is used as the zero-based index.
XrayRemove_ZeroBased(doc, number) ==
    LET k == PyIndex(Len(doc.clients), number)
    IN IF k = 0 THEN [err |-> TRUE, ret |-> None, doc |-> doc]
       ELSE [err |-> FALSE, ret |-> doc.clients[k],
             doc |-> [doc EXCEPT !.clients = DeleteAt(@, k)]]

XrayRemove(doc, number) ==
    LET k == PyIndex(Len(doc.clients), number - 1)
    IN IF k = 0 THEN [err |-> TRUE, ret |-> None, doc |-> doc]
       ELSE [err |-> FALSE, ret |-> doc.clients[k],
             doc |-> [doc EXCEPT !.clients = DeleteAt(@, k)]]

\* Mutant: the two transports' settings blocks are swapped.
XrayPath_Swapped(doc) ==
    CASE doc.stream.network = "ws" -> doc.stream.xhttpPath
      [] doc.stream.network = "xhttp" -> doc.stream.wsPath
      [] OTHER -> None

XrayPath(doc) ==
    CASE doc.stream.network = "ws" -> doc.stream.wsPath
      [] doc.stream.network = "xhttp" -> doc.stream.xhttpPath
      [] OTHER -> None

\* Mutant: enumerate(clients) without the start of 1.
XrayList_ZeroBased(doc, ufile) ==
    LET c == doc.clients
        bad == {i \in 1..Len(c) : c[i] \notin DOMAIN ufile.map}
        k == IF bad = {} THEN Len(c)
             ELSE (CHOOSE i \in bad : \A j \in bad : i <= j) - 1
    IN IF ~ufile.exists
       THEN [status |-> "FileNotFoundError", rows |-> <<>>]
       ELSE [status |-> IF bad = {} THEN "ok" ELSE "KeyError",
             rows |-> [i \in 1..k |->
                         [num |-> i - 1, name |-> ufile.map[c[i]], uuid |-> c[i]]]]

\* Mutant: a missing username is printed as an empty name (dict.get).
XrayList_Lenient(doc, ufile) ==
    LET c == doc.clients
    IN IF ~ufile.exists
       THEN [status |-> "FileNotFoundError", rows |-> <<>>]
       ELSE [status |-> "ok",
             rows |-> [i \in 1..Len(c) |->
                         [num |-> i,
                          name |-> IF c[i] \in DOMAIN ufile.map
                                   THEN ufile.map[c[i]] ELSE "",
                          uuid |-> c[i]]]]

\* list(): opens users.json afresh, then prints one row per client until a
\* client's UUID is missing from the mapping (KeyError).
XrayList(doc, ufile) ==
    LET c == doc.clients
        bad == {i \in 1..Len(c) : c[i] \notin DOMAIN ufile.map}
        k == IF bad = {} THEN Len(c)
             ELSE (CHOOSE i \in bad : \A j \in bad : i <= j) - 1
    IN IF ~ufile.exists
       THEN [status |-> "FileNotFoundError", rows |-> <<>>]
       ELSE [status |-> IF bad = {} THEN "ok" ELSE "KeyError",
             rows |-> [i \in 1..k |->
                         [num |-> i, name |-> ufile.map[c[i]], uuid |-> c[i]]]]

(* ----------------------------------------------------------------- state *)

VARIABLES
    caddy,      \* caddy/Caddyfile: [exists, domain]
    users,      \* users.json: [exists, map]
    xray,       \* xray/config.json: [exists, clients, stream]
    pc,         \* per process: where the running command stands
    xobj,       \* per process: the XrayConfig object (its __config)
    uobj,       \* per process: the UsersConfig object (its __config)
    uuid,       \* per process: the local variable uuid
    dom,        \* per process: the local variable domain of connstr
    out,        \* what the last step printed, returned or raised
    added,      \* history: UUIDs whose `client add` completed, not yet removed
    overlap,    \* history: a command began while another process was running
    begun,      \* history: commands begun since the configs were generated
    prior       \* history: the object and file as they were before the last add()

files == <<caddy, users, xray>>
locals == <<pc, xobj, uobj, uuid, dom>>
hist == <<added, overlap, begun>>
vars == <<caddy, users, xray, pc, xobj, uobj, uuid, dom, out, added, overlap, begun, prior>>

\* One step's observable outcome.  rows: the rows list() printed; emitted:
\* the lines connstr printed on standard output; ret: the UUID (or None) a
\* method returned; num: the integer a method was given or returned.
Out(cmd, status) ==
    [cmd |-> cmd, status |-> status, ret |-> None, num |-> 0,
     rows |-> <<>>, emitted |-> <<>>]

Idle(p) == pc[p] = "idle"

NoPrior == [set |-> FALSE, obj |-> NoXray, file |-> NoXray, uuid |-> None]

Init ==
    /\ caddy = NoCaddy
    /\ users = NoUsers
    /\ xray = NoXray
    /\ pc = [p \in Procs |-> "idle"]
    /\ xobj = [p \in Procs |-> NoXray]
    /\ uobj = [p \in Procs |-> NoUsers]
    /\ uuid = [p \in Procs |-> None]
    /\ dom = [p \in Procs |-> None]
    /\ out = Out("start", "")
    /\ added = {}
    /\ overlap = FALSE
    /\ begun = 0
    /\ prior = NoPrior

\* The process ends (return, or an exception that unwinds to the top level):
\* its objects and locals are gone.
Exit(p, o) ==
    /\ pc' = [pc EXCEPT ![p] = "idle"]
    /\ xobj' = [xobj EXCEPT ![p] = NoXray]
    /\ uobj' = [uobj EXCEPT ![p] = NoUsers]
    /\ uuid' = [uuid EXCEPT ![p] = None]
    /\ dom' = [dom EXCEPT ![p] = None]
    /\ out' = o

(* -------------------------------------------------------------- generate *)

\* templates/<transport>/config.json after format(path=path): no clients,
\* the transport as network and its settings block holding the path.
Template(t, path) ==
    [exists |-> TRUE, clients |-> <<>>,
     stream |-> [network |-> t,
                 wsPath |-> IF t = "ws" THEN path ELSE None,
                 xhttpPath |-> IF t = "xhttp" THEN path ELSE None]]

Generate(p, d, t, path) ==
    /\ Idle(p)
    /\ caddy' = [exists |-> TRUE, domain |-> d]
    /\ users' = [exists |-> TRUE, map |-> EmptyMap]
    /\ xray' = Template(t, path)
    /\ Exit(p, Out("generate", "ok"))

(* ---------------------------------------------------------------- client *)

FilesMissing == ~caddy.exists \/ ~users.exists \/ ~xray.exists

NoFilesMsg == "Necessary config files do not exist."
NoClientsMsg == "No clients defined."
NotValidMsg == "Not a valid sequence number."
NoSuchMsg == "No client with that sequence number."

\* client add, up to the two constructors.
ClientAdd(p) ==
    /\ Idle(p)
    /\ xray.exists => Len(xray.clients) < MaxClients
    /\ IF FilesMissing
       THEN /\ Exit(p, Out("client add", NoFilesMsg))
            /\ UNCHANGED files
       ELSE /\ pc' = [pc EXCEPT ![p] = "add"]
            /\ uobj' = [uobj EXCEPT ![p] = users]
            /\ xobj' = [xobj EXCEPT ![p] = xray]
            /\ out' = Out("client add", "")
            /\ UNCHANGED <<files, uuid, dom>>

\* uuid = xray_config.add(): uuid4, append, save.
ClientAddXray(p, u) ==
    /\ pc[p] = "add"
    /\ xobj' = [xobj EXCEPT ![p] = XrayAdd(@, u)]
    /\ xray' = xobj'[p]
    /\ uuid' = [uuid EXCEPT ![p] = u]
    /\ pc' = [pc EXCEPT ![p] = "add_prompt"]
    /\ out' = Out("client add", "prompt")
    /\ UNCHANGED <<caddy, users, uobj, dom>>

\* username = input(...); users_config[uuid] = username (set, save).
ClientAddName(p, name) ==
    /\ pc[p] = "add_prompt"
    /\ users' = [exists |-> TRUE, map |-> UsersSet(uobj[p].map, uuid[p], name)]
    /\ Exit(p, [Out("client add", "ok") EXCEPT !.ret = uuid[p]])
    /\ UNCHANGED <<caddy, xray>>

\* client list.
ClientList(p) ==
    /\ Idle(p)
    /\ IF FilesMissing
       THEN Exit(p, Out("client list", NoFilesMsg))
       ELSE LET r == XrayList(xray, users)
            IN Exit(p, [Out("client list", r.status) EXCEPT !.rows = r.rows])
    /\ UNCHANGED files

\* client remove, up to the prompt.
ClientRemove(p) ==
    /\ Idle(p)
    /\ UNCHANGED files
    /\ IF FilesMissing
       THEN Exit(p, Out("client remove", NoFilesMsg))
       ELSE IF XrayCount(xray) = 0
       THEN Exit(p, Out("client remove", NoClientsMsg))
       ELSE LET r == XrayList(xray, users)
            IN IF r.status # "ok"
               THEN Exit(p, [Out("client remove", r.status) EXCEPT !.rows = r.rows])
               ELSE /\ pc' = [pc EXCEPT ![p] = "rm_prompt"]
                    /\ uobj' = [uobj EXCEPT ![p] = users]
                    /\ xobj' = [xobj EXCEPT ![p] = xray]
                    /\ out' = [Out("client remove", "prompt") EXCEPT !.rows = r.rows]
                    /\ UNCHANGED <<uuid, dom>>

\* The line typed at the prompt of client remove, int(), xray_config.remove.
ClientRemoveNumber(p, s) ==
    /\ pc[p] = "rm_prompt"
    /\ IF ~ValidNumber(s)
       THEN /\ Exit(p, Out("client remove", NotValidMsg))
            /\ UNCHANGED files
       ELSE LET r == XrayRemove(xobj[p], ParseInt(s).val)
            IN IF r.err
               THEN /\ Exit(p, Out("client remove", NoSuchMsg))
                    /\ UNCHANGED files
               ELSE /\ xobj' = [xobj EXCEPT ![p] = r.doc]
                    /\ xray' = r.doc
                    /\ uuid' = [uuid EXCEPT ![p] = r.ret]
                    /\ pc' = [pc EXCEPT ![p] = "rm_users"]
                    /\ out' = Out("client remove", "")
                    /\ UNCHANGED <<caddy, users, uobj, dom>>

\* del users_config[uuid] (delete, save; KeyError when absent).
ClientRemoveUsers(p) ==
    /\ pc[p] = "rm_users"
    /\ LET d == UsersDel(uobj[p].map, uuid[p])
       IN IF d.err
          THEN /\ Exit(p, Out("client remove", "KeyError"))
               /\ UNCHANGED files
          ELSE /\ users' = [exists |-> TRUE, map |-> d.map]
               /\ Exit(p, [Out("client remove", "ok") EXCEPT !.ret = uuid[p]])
               /\ UNCHANGED <<caddy, xray>>

\* input() raises (end of input, or an interrupt) at any of the prompts.
PromptEOF(p) ==
    /\ pc[p] \in {"add_prompt", "rm_prompt", "conn_prompt"}
    /\ Exit(p, Out(out.cmd, "EOFError"))
    /\ UNCHANGED files

(* --------------------------------------------------------------- connstr *)

\* The parameter object of a connection string.  The program prints
\* 'vmess://' + base64(json.dumps(params)); both encodings are injective, so
\* the printed line is modelled by the object it encodes.
Params(domain, id, doc) ==
    [add |-> domain, aid |-> "0", host |-> domain, id |-> id,
     net |-> doc.stream.network, path |-> XrayPath(doc), port |-> "443",
     ps |-> domain, tls |-> "tls", type |-> "none", v |-> "2"]

\* --uuid values: a client's UUID, some other string, or None (not given).
UuidArgs == UUIDs \cup {"u-other", None}

\* connstr, up to the prompt (or to the end when --uuid is given).
Connstr(p, given) ==
    /\ Idle(p)
    /\ UNCHANGED files
    /\ IF ~caddy.exists \/ ~xray.exists
       THEN Exit(p, Out("connstr", NoFilesMsg))
       ELSE IF XrayCount(xray) = 0
       THEN Exit(p, Out("connstr", NoClientsMsg))
       ELSE IF given # None
       THEN Exit(p, [Out("connstr", "ok") EXCEPT
                       !.emitted = <<Params(caddy.domain, given, xray)>>])
       ELSE LET r == XrayList(xray, users)
            IN IF r.status # "ok"
               THEN Exit(p, [Out("connstr", r.status) EXCEPT !.rows = r.rows])
               ELSE /\ pc' = [pc EXCEPT ![p] = "conn_prompt"]
                    /\ xobj' = [xobj EXCEPT ![p] = xray]
                    /\ dom' = [dom EXCEPT ![p] = caddy.domain]
                    /\ out' = [Out("connstr", "prompt") EXCEPT !.rows = r.rows]
                    /\ UNCHANGED <<uobj, uuid>>

\* The line typed at the prompt of connstr, int(), xray_config.get, print.
ConnstrNumber(p, s) ==
    /\ pc[p] = "conn_prompt"
    /\ UNCHANGED files
    /\ IF ~ValidNumber(s)
       THEN Exit(p, Out("connstr", NotValidMsg))
       ELSE LET g == XrayGet(xobj[p], ParseInt(s).val)
            IN IF g.err
               THEN Exit(p, Out("connstr", NoSuchMsg))
               ELSE Exit(p, [Out("connstr", "ok") EXCEPT
                               !.num = ParseInt(s).val,
                               !.emitted = <<Params(dom[p], g.ret, xobj[p])>>])

(* ------------------------------------------- XrayConfig, called directly *)

\* The integers a caller may pass as a sequence number.
Numbers == (0 - MaxClients - 1) .. (MaxClients + 1)

\* XrayConfig(): the object built from xray/config.json.
ApiNew(p) ==
    /\ Idle(p)
    /\ UNCHANGED files
    /\ IF ~xray.exists
       THEN Exit(p, Out("XrayConfig", "FileNotFoundError"))
       ELSE /\ pc' = [pc EXCEPT ![p] = "api"]
            /\ xobj' = [xobj EXCEPT ![p] = xray]
            /\ out' = Out("XrayConfig", "ok")
            /\ UNCHANGED <<uobj, uuid, dom>>

ApiAdd(p, u) ==
    /\ pc[p] = "api"
    /\ Len(xobj[p].clients) < MaxClients
    /\ xobj' = [xobj EXCEPT ![p] = XrayAdd(@, u)]
    /\ xray' = xobj'[p]
    /\ out' = [Out("add", "ok") EXCEPT !.ret = u]
    /\ UNCHANGED <<caddy, users, pc, uobj, uuid, dom>>

ApiCount(p) ==
    /\ pc[p] = "api"
    /\ out' = [Out("count", "ok") EXCEPT !.num = XrayCount(xobj[p])]
    /\ UNCHANGED <<files, locals>>

ApiGet(p, n) ==
    /\ pc[p] = "api"
    /\ LET g == XrayGet(xobj[p], n)
       IN out' = [Out("get", IF g.err THEN NoSuchMsg ELSE "ok") EXCEPT
                    !.ret = g.ret, !.num = n]
    /\ UNCHANGED <<files, locals>>

ApiList(p) ==
    /\ pc[p] = "api"
    /\ LET r == XrayList(xobj[p], users)
       IN out' = [Out("list", r.status) EXCEPT !.rows = r.rows]
    /\ UNCHANGED <<files, locals>>

ApiPath(p) ==
    /\ pc[p] = "api"
    /\ out' = [Out("path", "ok") EXCEPT !.ret = XrayPath(xobj[p])]
    /\ UNCHANGED <<files, locals>>

ApiRemove(p, n) ==
    /\ pc[p] = "api"
    /\ LET r == XrayRemove(xobj[p], n)
       IN /\ out' = [Out("remove", IF r.err THEN NoSuchMsg ELSE "ok") EXCEPT
                       !.ret = r.ret, !.num = n]
          /\ xobj' = [xobj EXCEPT ![p] = r.doc]
          /\ xray' = IF r.err THEN xray ELSE r.doc
    /\ UNCHANGED <<caddy, users, pc, uobj, uuid, dom>>

\* The caller is done with the object.
ApiDrop(p) ==
    /\ pc[p] = "api"
    /\ Exit(p, Out("drop", ""))
    /\ UNCHANGED files

(* ------------------------------------------------------------ environment *)

\* A config file is deleted outside the program while no command runs: the
\* situation the existence checks of client and connstr are written for.
Unlink(f) ==
    /\ \A p \in Procs : Idle(p)
    /\ \/ f = "caddy" /\ caddy.exists /\ caddy' = NoCaddy /\ UNCHANGED <<users, xray>>
       \/ f = "users" /\ users.exists /\ users' = NoUsers /\ UNCHANGED <<caddy, xray>>
       \/ f = "xray" /\ xray.exists /\ xray' = NoXray /\ UNCHANGED <<caddy, users>>
    /\ out' = Out("unlink", f)
    /\ UNCHANGED locals

(* --------------------------------------------------------- specifications *)

Main == "p1"

\* A step of a command: the history variables are not part of it.
Cmd(A) == A /\ UNCHANGED <<hist, prior>>

\* A step under SpecApi: the history of direct calls is kept (add() records
\* the object and the file it found; the record is kept over a remove()
\* that follows at once).
Call(A) ==
    /\ A
    /\ prior' = IF out'.cmd = "add"
                THEN [set |-> TRUE, obj |-> xobj[Main], file |-> xray, uuid |-> out'.ret]
                ELSE IF out'.cmd = "remove" /\ out.cmd = "add" THEN prior
                ELSE NoPrior
    /\ UNCHANGED hist

\* One process at a time: the commands, and deletions of files between
\* commands.
Next ==
    \/ Cmd(\E d \in Domains, t \in Transports, path \in Paths : Generate(Main, d, t, path))
    \/ Cmd(ClientAdd(Main))
    \/ Cmd(\E u \in UUIDs : ClientAddXray(Main, u))
    \/ Cmd(\E name \in Names : ClientAddName(Main, name))
    \/ Cmd(ClientList(Main))
    \/ Cmd(ClientRemove(Main))
    \/ Cmd(\E s \in Inputs : ClientRemoveNumber(Main, s))
    \/ Cmd(ClientRemoveUsers(Main))
    \/ Cmd(PromptEOF(Main))
    \/ Cmd(\E given \in UuidArgs : Connstr(Main, given))
    \/ Cmd(\E s \in Inputs : ConnstrNumber(Main, s))
    \/ Cmd(\E f \in {"caddy", "users", "xray"} : Unlink(f))

Spec == Init /\ [][Next]_vars

\* One process at a time: direct calls of XrayConfig's methods on an object,
\* between the commands that fill and read the configs.
NextApi ==
    \/ Call(\E d \in Domains, t \in Transports, path \in Paths : Generate(Main, d, t, path))
    \/ Call(ClientAdd(Main))
    \/ Call(\E u \in UUIDs : ClientAddXray(Main, u))
    \/ Call(\E name \in Names : ClientAddName(Main, name))
    \/ Call(ClientList(Main))
    \/ Call(\E given \in UuidArgs : Connstr(Main, given))
    \/ Call(\E s \in Inputs : ConnstrNumber(Main, s))
    \/ Call(ApiNew(Main))
    \/ Call(\E u \in UUIDs : ApiAdd(Main, u))
    \/ Call(ApiCount(Main))
    \/ Call(\E n \in Numbers : ApiGet(Main, n))
    \/ Call(ApiList(Main))
    \/ Call(ApiPath(Main))
    \/ Call(\E n \in Numbers : ApiRemove(Main, n))
    \/ Call(ApiDrop(Main))

SpecApi == Init /\ [][NextApi]_vars

\* The commands that change the client set, each run to its end before the
\* next begins, with uuid4 returning a UUID no client holds.
FreshUUIDs(p) == UUIDs \ (Range(xobj[p].clients) \cup DOMAIN uobj[p].map)

NextSerial ==
    \/ Cmd(\E d \in Domains, t \in Transports, path \in Paths : Generate(Main, d, t, path))
    \/ Cmd(ClientAdd(Main))
    \/ Cmd(\E u \in FreshUUIDs(Main) : ClientAddXray(Main, u))
    \/ Cmd(\E name \in Names : ClientAddName(Main, name))
    \/ Cmd(ClientRemove(Main))
    \/ Cmd(\E s \in Inputs : ClientRemoveNumber(Main, s))
    \/ Cmd(ClientRemoveUsers(Main))

SpecSerial == Init /\ [][NextSerial]_vars

\* Several processes at once, no lock: each step of a command is atomic and
\* the steps of different processes interleave freely.
AllIdle == \A p \in Procs : Idle(p)

\* A step of process p under SpecConc, with the history variables: how many
\* commands have begun, whether one began while another process was running,
\* and which adds have completed and were not removed since.
Conc(p, A) ==
    /\ Idle(p) => begun < MaxCommands
    /\ A
    /\ begun' = IF Idle(p) /\ pc'[p] # "idle" THEN begun + 1 ELSE begun
    /\ overlap' = (overlap \/ (Idle(p) /\ pc'[p] # "idle"
                                /\ \E q \in Procs \ {p} : ~Idle(q)))
    /\ added' = IF out'.status # "ok" THEN added
                ELSE IF out'.cmd = "client add" THEN added \cup {out'.ret}
                ELSE IF out'.cmd = "client remove" THEN added \ {out'.ret}
                ELSE added
    /\ UNCHANGED prior

NextConc ==
    \/ /\ AllIdle
       /\ \E d \in Domains, t \in Transports, path \in Paths : Generate(Main, d, t, path)
       /\ added' = {}
       /\ overlap' = FALSE
       /\ begun' = 0
       /\ UNCHANGED prior
    \/ \E p \in Procs : Conc(p, ClientAdd(p))
    \/ \E p \in Procs : Conc(p, \E u \in UUIDs : ClientAddXray(p, u))
    \/ \E p \in Procs : Conc(p, \E name \in Names : ClientAddName(p, name))
    \/ \E p \in Procs : Conc(p, ClientRemove(p))
    \/ \E p \in Procs : Conc(p, \E s \in Inputs : ClientRemoveNumber(p, s))
    \/ \E p \in Procs : Conc(p, ClientRemoveUsers(p))

SpecConc == Init /\ [][NextConc]_vars

(* ----------------------------------------------------------------- claims *)

Distinct(s) == \A i, j \in 1..Len(s) : i # j => s[i] # s[j]

UuidSet(doc) == Range(doc.clients)

\* C1: get(n) and remove(n) with any integer n outside 1..count() report
\* 'No client with that sequence number.', return no UUID and leave the
\* client list and the Xray file unchanged.
C1_OutOfRangeRejected ==
    [][(out'.cmd \in {"get", "remove"}
          /\ out'.num \notin 1..XrayCount(xobj[Main]))
       => (/\ out'.status = NoSuchMsg
           /\ out'.ret = None
           /\ xobj' = xobj
           /\ xray' = xray)]_vars

\* C2: add() returning u, followed at once by remove(n) with n the count
\* after the add, returns u and restores the client list, in memory and in
\* the Xray file, to what it was before the add.
C2_AddThenRemove ==
    (out.cmd = "remove" /\ prior.set /\ out.num = XrayCount(prior.obj) + 1)
    => (/\ out.status = "ok"
        /\ out.ret = prior.uuid
        /\ XrayCount(xobj[Main]) = XrayCount(prior.obj)
        /\ xobj[Main].clients = prior.obj.clients
        /\ xray.exists
        /\ xray.clients = prior.file.clients
        /\ xray = prior.file)

C2_Witness ==
    /\ out.cmd = "remove" /\ prior.set
    /\ out.num = XrayCount(prior.obj) + 1
    /\ XrayCount(prior.obj) = 2
    /\ prior.uuid \in UuidSet(prior.obj)

\* What C3 asks of an emitted parameter object e, for the requested UUID id
\* and the Xray config doc.
ParamsAsClaimed(e, id, doc) ==
    /\ e.id = id
    /\ e.net = doc.stream.network
    /\ e.port = "443"
    /\ doc.stream.network = "ws" => e.path = doc.stream.wsPath
    /\ doc.stream.network = "xhttp" => e.path = doc.stream.xhttpPath
    /\ e.path # None

\* C3: whenever connstr emits a connection string, its parameter object has
\* id equal to the requested UUID (the --uuid value, or the id of the client
\* at the entered sequence number n in 1..count), path equal to the path of
\* the configured transport's settings, net equal to the configured network
\* and port "443".
C3_ConnstrParams ==
    [][/\ \A given \in UuidArgs :
            (out'.emitted # <<>> /\ Connstr(Main, given))
            => (/\ given # None
                /\ Len(out'.emitted) = 1
                /\ xray.stream.network \in Transports
                /\ ParamsAsClaimed(out'.emitted[1], given, xray))
       /\ \A s \in Inputs :
            (out'.emitted # <<>> /\ ConnstrNumber(Main, s))
            => (/\ ParseInt(s).ok
                /\ ParseInt(s).val \in 1..XrayCount(xobj[Main])
                /\ Len(out'.emitted) = 1
                /\ xobj[Main] = xray
                /\ ParamsAsClaimed(out'.emitted[1],
                                   xray.clients[ParseInt(s).val], xray))]_vars

C3_Witness ==
    /\ out.cmd = "connstr" /\ out.emitted # <<>>
    /\ out.num = 2
    /\ out.emitted[1].id = xray.clients[2]
    /\ out.emitted[1].id # xray.clients[1]
    /\ out.emitted[1].net = "ws"

\* C4: a command begun while a config file it reads is absent prints the
\* 'Necessary config files do not exist' message and returns, changing no
\* file; no command ends with an unhandled error for a missing file.
C4_MissingFileHandled ==
    [][/\ (out'.cmd \in {"client add", "client list", "client remove"}
             /\ Idle(Main) /\ FilesMissing)
          => (out'.status = NoFilesMsg /\ files' = files /\ Idle(Main)')
       /\ (out'.cmd = "connstr" /\ Idle(Main)
             /\ (~caddy.exists \/ ~xray.exists))
          => (out'.status = NoFilesMsg /\ files' = files /\ Idle(Main)')
       /\ out'.cmd \in {"client add", "client list", "client remove", "connstr"}
          => out'.status # "FileNotFoundError"]_vars

\* A line that is no sequence number of a list of c clients: not an integer,
\* less than 1, or greater than c.
BadNumber(s, c) == ~ParseInt(s).ok \/ ParseInt(s).val < 1 \/ ParseInt(s).val > c

\* C5: at the prompt of `client remove` and of `connstr`, a line that is not
\* an integer, is less than 1 or exceeds the client count gets one of the two
\* error messages and the command returns: no file changes, and connstr
\* emits nothing.
C5_BadNumberRejected ==
    [][\A s \in Inputs :
         (pc[Main] \in {"rm_prompt", "conn_prompt"}
            /\ BadNumber(s, XrayCount(xobj[Main])))
         => (/\ ClientRemoveNumber(Main, s)
                => (/\ out'.status \in {NotValidMsg, NoSuchMsg}
                    /\ Idle(Main)'
                    /\ xray' = xray /\ users' = users /\ caddy' = caddy)
             /\ ConnstrNumber(Main, s)
                => (/\ out'.status \in {NotValidMsg, NoSuchMsg}
                    /\ Idle(Main)'
                    /\ out'.emitted = <<>>
                    /\ xray' = xray /\ users' = users /\ caddy' = caddy))]_vars

C5_Witness ==
    /\ out.cmd = "client remove" /\ out.status = NoSuchMsg
    /\ XrayCount(xray) = 2

\* C6: without a lock, commands that run one after the other keep every
\* added client in both files, while commands of two processes that overlap
\* can lose one (C6_Witness: both adds completed, both processes idle, and a
\* client added is missing from a file).
C6_SerialKeepsBoth ==
    (AllIdle /\ ~overlap /\ xray.exists /\ users.exists)
    => (added \subseteq UuidSet(xray) /\ added \subseteq DOMAIN users.map)

C6_Witness ==
    /\ AllIdle /\ overlap
    /\ Cardinality(added) = 2
    /\ out.cmd = "client add" /\ out.status = "ok"
    /\ \E u \in added : u \notin DOMAIN users.map
    /\ UuidSet(xray) # DOMAIN users.map

\* The steps that only read, and what a listing's rows must show.
ReadOnlyCmds == {"list", "count", "get", "path", "client list", "connstr"}

RowsNumbered(rows, doc) ==
    \A n \in 1..Len(rows) :
        /\ n <= XrayCount(doc)
        /\ rows[n].num = n
        /\ rows[n].uuid = XrayGet(doc, n).ret

\* C7: a listing numbers its rows from 1 and row n shows the id get(n)
\* returns; list, count, get, path, `client list` and connstr change neither
\* the client list nor any file, so the numbering stays as it is until an
\* add, a remove or a generate.
C7_ListStable ==
    [][out'.cmd \in ReadOnlyCmds
       => (/\ files' = files
           /\ out'.cmd \in {"list", "count", "get", "path"} => xobj' = xobj
           /\ out'.cmd = "list"
              => (/\ RowsNumbered(out'.rows, xobj[Main])
                  /\ out'.status = "ok" => Len(out'.rows) = XrayCount(xobj[Main]))
           /\ (out'.cmd \in {"client list", "connstr"} /\ Idle(Main))
              => (/\ RowsNumbered(out'.rows, xray)
                  /\ (\/ out'.cmd = "client list" /\ out'.status = "ok"
                      \/ out'.cmd = "connstr" /\ out'.status = "prompt")
                     => Len(out'.rows) = XrayCount(xray)))]_vars

C7_Witness ==
    /\ out.cmd = "list" /\ out.status = "ok"
    /\ Len(out.rows) = 3
    /\ out.rows[2].uuid # out.rows[3].uuid

\* C8: `client remove` with a sequence number n in 1..count, the client
\* UUIDs being distinct and each having a users entry, deletes exactly the
\* client at n: from the Xray list (the others keep their order, those after
\* n move down by one) and then from the users mapping (the others keep
\* their usernames).
C8_RemoveExactlyOne ==
    [][/\ \A s \in Inputs :
            (/\ pc[Main] = "rm_prompt"
             /\ ~BadNumber(s, XrayCount(xray))
             /\ Distinct(xray.clients)
             /\ UuidSet(xray) \subseteq DOMAIN users.map
             /\ ClientRemoveNumber(Main, s))
            => LET n == ParseInt(s).val
                   old == xray.clients
                   new == xray'.clients
               IN /\ pc'[Main] = "rm_users"
                  /\ uuid'[Main] = old[n]
                  /\ old[n] \notin Range(new)
                  /\ Len(new) = Len(old) - 1
                  /\ \A j \in 1..Len(new) :
                        new[j] = IF j < n THEN old[j] ELSE old[j + 1]
                  /\ users' = users
                  /\ users = uobj[Main]
       /\ (pc[Main] = "rm_users" /\ uuid[Main] \in DOMAIN users.map
             /\ ClientRemoveUsers(Main))
            => (/\ out'.status = "ok"
                /\ xray' = xray
                /\ DOMAIN users'.map = (DOMAIN users.map) \ {uuid[Main]}
                /\ \A u \in DOMAIN users'.map : users'.map[u] = users.map[u]
                /\ uuid[Main] \notin UuidSet(xray)
                      => UuidSet(xray') = DOMAIN users'.map)]_vars

C8_Witness ==
    /\ out.cmd = "client remove" /\ out.status = "ok"
    /\ XrayCount(xray) = 2
    /\ Distinct(xray.clients)
    /\ out.ret \notin UuidSet(xray)
    /\ UuidSet(xray) = DOMAIN users.map

\* Some client of doc has no entry in the users mapping.
MissingUser(doc, ufile) == \E i \in 1..Len(doc.clients) : doc.clients[i] \notin DOMAIN ufile.map

\* C9: with all three files present and some client UUID missing from the
\* users mapping, list() raises KeyError: `client list`, `client remove` and
\* connstr without --uuid end with it before any prompt and change no file.
C9_MissingUserKeyError ==
    [][(Idle(Main) /\ ~FilesMissing /\ MissingUser(xray, users))
       => ((ClientList(Main) \/ ClientRemove(Main) \/ Connstr(Main, None))
           => (/\ out'.status = "KeyError"
               /\ Idle(Main)'
               /\ files' = files))]_vars

C9_Witness ==
    /\ out.cmd = "client remove" /\ out.status = "KeyError"
    /\ Idle(Main)
    /\ MissingUser(xray, users)

\* C10: from the generated configs on, with uuid4 returning UUIDs no client
\* holds and every command run to its end, the UUIDs of the Xray client list
\* are the keys of the users mapping whenever no command is between its Xray
\* write and its users write.
C10_CrossFileConsistent ==
    UuidSet(xray) # DOMAIN users.map => pc[Main] \in {"add_prompt", "rm_users"}

C10_Witness ==
    /\ Idle(Main)
    /\ out.cmd = "client remove" /\ out.status = "ok"
    /\ XrayCount(xray) = 2
    /\ UuidSet(xray) = DOMAIN users.map

====
